---- MODULE Spec2Model ----
(***************************************************************************)
(* train_RPBCAC (training/train_agents.py): the episode / cycle state      *)
(* machine that drives batched resilient-consensus actor-critic updates.   *)
(* Nodes are numbered 0 .. n_agents-1 as in the source; Python lists are   *)
(* TLA+ sequences, so list index k is sequence index k+1.                  *)
(***************************************************************************)
EXTENDS Integers, Sequences, FiniteSets, TLC

VARIABLES
  args,               \* the user-defined parameters (dict args)
  env,                \* the gym environment: n_agents, reset and step counts
  f,                  \* Byzantine tolerance of the agents' trimmed mean
  exp_buffer,         \* the optional pre-supplied buffer argument
  agents,             \* per node: critic, TR, critic_local and actor parameters
  states, nstates, actions, rewards, observations, nobservations,
  observations_bound, \* whether the names observations/nobservations are bound
  pc, err,            \* position in train_RPBCAC; the exception raised, if any
  t, i, j,            \* episode index, t % n_ep_fixed, step counter
  n, node,            \* epoch index and node index of the running loop
  batch,              \* the tensors s, ns, r, a, obs, nobs, sa
  r_coop,             \* team-average reward tensor
  critic_weights, TR_weights,
  calls,              \* history: agent operations invoked in the current epoch
  received,           \* history: snapshots handed to each node in Stage II
  fired,              \* history: <<t, j>> of every update cycle begun
  actor_calls,        \* history: number of actor_update calls per node
  actor_slice,        \* history: the last slices given to actor_update
  cycle_first,        \* history: step id of the first transition of the cycle
  losses,             \* the arrays TR_loss, critic_loss and actor_loss
  agg                 \* one trimmed-mean aggregation: its inputs and result

\* the state of a run of train_RPBCAC
train == <<args, env, f, exp_buffer, agents, states, nstates, actions, rewards,
           observations, nobservations, observations_bound, pc, err, t, i, j,
           n, node, batch, r_coop, critic_weights, TR_weights, calls, received,
           fired, actor_calls, actor_slice, cycle_first, losses>>

vars == <<train, agg>>

\* ------------------------------------------------------------------ bounds
MaxEpisodes == 4
MaxEpLen == 2
MaxEpFixed == 2
MaxEpochs == 2
MaxBufferSize == 3
MaxPre == 1
RoleAgents == 3
MaxK == 3
MaxVal == 2
MaxTol == 1

Roles == {"Cooperative", "Greedy", "Malicious", "Faulty"}

\* ------------------------------------------------------- exact arithmetic
Abs(x) == IF x < 0 THEN -x ELSE x

RECURSIVE GCD(_, _)
GCD(a, b) == IF b = 0 THEN a ELSE GCD(b, a % b)

\* A rational in lowest terms with a positive denominator.
Rat(num, den) ==
  LET s == IF den < 0 THEN -1 ELSE 1
      g == GCD(Abs(num), Abs(den))
  IN [num |-> (s * num) \div g, den |-> (s * den) \div g]

RatAdd(p, q) == Rat(p.num * q.den + q.num * p.den, p.den * q.den)
RatNeg(p) == [num |-> -p.num, den |-> p.den]
RatDivInt(p, k) == Rat(p.num, p.den * k)
Zero == [num |-> 0, den |-> 1]

\* ------------------------------------------------------------ Python lists
\* list.count(v)
Count(s, v) == Cardinality({k \in DOMAIN s : s[k] = v})

\* T[-k:]  (-0 is 0, so k = 0 yields the whole list)
SliceLast(T, k) ==
  IF k = 0 \/ k >= Len(T) THEN T ELSE SubSeq(T, Len(T) - k + 1, Len(T))

\* del L[:q]
DelFirst(L, q) ==
  IF q <= 0 THEN L ELSE IF q >= Len(L) THEN <<>> ELSE SubSeq(L, q + 1, Len(L))

\* ------------------------------------------------------------- environment
RewardMod == 5

\* env.get_data(): the reward vector of simulation step k (node 0 first)
RewardVec(m, k) == [x \in 1..m |-> Rat((k * x) % RewardMod, 1)]

RewardOf(k) == RewardVec(env.n_agents, k)

Nodes == 0..(env.n_agents - 1)

\* args['agent_label'][x]; "IndexError" past the end of the list
Label(x) ==
  IF x + 1 \in DOMAIN args.agent_label THEN args.agent_label[x + 1]
  ELSE "IndexError"

n_coop == Count(args.agent_label, "Cooperative")

\* generator (x for x in range(n_agents) if agent_label[x] == 'Cooperative')
CoopNodes == {x \in Nodes : Label(x) = "Cooperative"}

\* the first Cooperative node at or after x, n_agents when there is none
NextCoopFirstOnly(x) ==
  IF x = 0 /\ CoopNodes # {}
  THEN CHOOSE y \in CoopNodes : \A z \in CoopNodes : y <= z
  ELSE env.n_agents

NextCoopEveryNode(x) == IF x < env.n_agents THEN x ELSE env.n_agents

NextCoop(x) ==
  IF \E y \in CoopNodes : y >= x
  THEN CHOOSE y \in CoopNodes : y >= x /\ \A z \in CoopNodes : z >= x => y <= z
  ELSE env.n_agents

\* ---------------------------------------------------------- configurations
DefaultLabels == <<"Cooperative", "Cooperative", "Greedy", "Malicious">>
ShortLabels == SubSeq(DefaultLabels, 1, Len(DefaultLabels) - 1)
LongLabels == Append(DefaultLabels, "Cooperative")

CompleteGraph(m) == [v \in 0..(m - 1) |-> [k \in 1..m |-> k - 1]]
RingGraph(m) == [v \in 0..(m - 1) |-> <<(v + 1) % m>>]
PairGraph == [v \in {0, 1} |-> <<1 - v>>]

Network(m, labels, graph, tol) ==
  [n_agents |-> m, agent_label |-> labels, in_nodes |-> graph, f |-> tol]

DefaultNetwork ==
  Network(Len(DefaultLabels), DefaultLabels,
          CompleteGraph(Len(DefaultLabels)), 1)

\* agent_label shorter or longer than n_agents; neighbour sets of size <= 2f
ErrorNetworks ==
  { Network(Len(DefaultLabels), ShortLabels,
            CompleteGraph(Len(DefaultLabels)), 1),
    Network(Len(DefaultLabels), LongLabels, RingGraph(Len(DefaultLabels)), 0),
    Network(Len(DefaultLabels), DefaultLabels,
            RingGraph(Len(DefaultLabels)), 1) }

\* every assignment of the four roles to RoleAgents nodes
RoleNetworks ==
  { Network(RoleAgents, l, g[1], g[2]) :
      l \in [1..RoleAgents -> Roles],
      g \in { <<RingGraph(RoleAgents), 0>>, <<PairGraph, 0>>,
              <<CompleteGraph(RoleAgents), 1>> } }

\* two Cooperative nodes that are each other's only in-neighbour, one
\* Malicious and one Faulty node, f = 0
ScenarioLabels == <<"Cooperative", "Cooperative", "Malicious", "Faulty">>

ScenarioNetwork == Network(Len(ScenarioLabels), ScenarioLabels, PairGraph, 0)

\* a caller-supplied exp_buffer holding q transitions, numbered 1-q .. 0
Supplied(m, q) ==
  LET ids == [k \in 1..q |-> k - q]
      rws == [k \in 1..q |-> [step |-> k - q, vec |-> RewardVec(m, k - q)]]
  IN [given |-> TRUE, lists |-> <<ids, ids, ids, rws, ids, ids>>]

NoBuffer == [given |-> FALSE, lists |-> <<>>]

Config(nw, ml, ne, nf, np, bs, cr, buf) ==
  [net |-> nw,
   args |-> [agent_label |-> nw.agent_label, in_nodes |-> nw.in_nodes,
             max_ep_len |-> ml, n_episodes |-> ne, n_ep_fixed |-> nf,
             n_epochs |-> np, buffer_size |-> bs, common_reward |-> cr],
   exp_buffer |-> buf]

TimingConfigs ==
  { Config(DefaultNetwork, ml, ne, nf, np, bs, TRUE, NoBuffer) :
      ml \in 1..MaxEpLen, ne \in 0..MaxEpisodes, nf \in 1..MaxEpFixed,
      np \in {1, MaxEpochs}, bs \in 0..MaxBufferSize }

ErrorConfigs ==
  { Config(nw, 1, ne, 1, 1, bs, cr, NoBuffer) :
      nw \in ErrorNetworks, ne \in {1, 2}, bs \in {0, MaxBufferSize},
      cr \in BOOLEAN }

RoleConfigs ==
  { Config(nw, 1, 1, 1, 2, 1, cr, NoBuffer) :
      nw \in RoleNetworks, cr \in BOOLEAN }

ScenarioConfigs ==
  { Config(ScenarioNetwork, 1, 1, 1, np, 1, cr, NoBuffer) :
      np \in {1, MaxEpochs}, cr \in BOOLEAN }

SuppliedConfigs ==
  { Config(DefaultNetwork, ml, ne, 1, 1, bs, TRUE,
           Supplied(DefaultNetwork.n_agents, q)) :
      ml \in 1..MaxEpLen, ne \in 0..MaxEpisodes, bs \in 0..MaxBufferSize,
      q \in 0..MaxPre }

Configs ==
  TimingConfigs \cup ErrorConfigs \cup RoleConfigs \cup ScenarioConfigs
    \cup SuppliedConfigs

\* ------------------------------------------------------------------ agents
Tag(op, x, c, e) == [op |-> op, node |-> x, cyc |-> c, ep |-> e]

InitParam(x) == [hidden |-> Tag("init", x, 0, 0), out |-> Tag("init", x, 0, 0)]

InitAgent(x) ==
  [critic |-> InitParam(x), TR |-> InitParam(x),
   critic_local |-> Tag("init", x, 0, 0), actor |-> Tag("init", x, 0, 0)]

\* np.zeros(n_agents): no loss recorded for any node
ZeroLosses(m) == [x \in 0..(m - 1) |-> Tag("zeros", x, 0, 0)]

\* no aggregation has been requested
NoResult == [defined |-> FALSE, value |-> Zero]

NoAgg == [vals |-> <<>>, adv |-> {}, f |-> 0, done |-> FALSE, out |-> NoResult]

\* the state on entry to train_RPBCAC(env, agents, args, exp_buffer)
InitWith(cfg) ==
  /\ args = cfg.args
  /\ env = [n_agents |-> cfg.net.n_agents, resets |-> 0, steps |-> 0]
  /\ f = cfg.net.f
  /\ exp_buffer = cfg.exp_buffer
  /\ agents = [x \in 0..(cfg.net.n_agents - 1) |-> InitAgent(x)]
  /\ states = <<>> /\ nstates = <<>> /\ actions = <<>> /\ rewards = <<>>
  /\ observations = <<>> /\ nobservations = <<>>
  /\ observations_bound = FALSE
  /\ pc = "start" /\ err = "none"
  /\ t = 0 /\ i = 0 /\ j = 0 /\ n = 0 /\ node = 0
  /\ batch = [s |-> <<>>, ns |-> <<>>, r |-> <<>>, a |-> <<>>,
              obs |-> <<>>, nobs |-> <<>>, sa |-> <<>>]
  /\ r_coop = <<>>
  /\ critic_weights = <<>> /\ TR_weights = <<>>
  /\ calls = <<>>
  /\ received = [x \in 0..(cfg.net.n_agents - 1) |->
                   [critic |-> <<>>, TR |-> <<>>]]
  /\ fired = <<>>
  /\ actor_calls = [x \in 0..(cfg.net.n_agents - 1) |-> 0]
  /\ actor_slice = [obs |-> <<>>, nobs |-> <<>>, a |-> <<>>]
  /\ cycle_first = 1
  /\ losses = [TR |-> ZeroLosses(cfg.net.n_agents),
               critic |-> ZeroLosses(cfg.net.n_agents),
               actor |-> ZeroLosses(cfg.net.n_agents)]

Init == \E cfg \in Configs : InitWith(cfg) /\ agg = NoAgg

\* ------------------------------------------------------- agent operations
\* Each update overwrites the parameters it trains; the returned snapshot is
\* a copy of the parameters as they are when the call returns.
Stamp(op, x) == Tag(op, x, Len(fired), n)

Trained(op, x) == [hidden |-> Stamp(op, x), out |-> Stamp(op, x)]

Snapshot(x, w) == [by |-> x, cyc |-> Len(fired), ep |-> n, w |-> w]

Call(x, op, target) == [node |-> x, op |-> op, target |-> target]

\* the trimmed-mean aggregate of the neighbours' hidden layers: with f = 0
\* and one neighbour it is that neighbour's hidden layer
HiddenAggregate(x, snaps) ==
  IF f = 0 /\ Len(snaps) = 1 THEN snaps[1].w.hidden ELSE Stamp("consensus", x)

\* ------------------------------------------------------------- train_RPBCAC
\* lines 30-47: bind the six buffer lists
BindBuffers ==
  /\ pc = "start"
  /\ IF exp_buffer.given
     THEN /\ states' = exp_buffer.lists[1]
          /\ nstates' = exp_buffer.lists[2]
          /\ actions' = exp_buffer.lists[3]
          /\ rewards' = exp_buffer.lists[4]
          \* lines 44-45 bind observation / nobservation, not the two lists
          /\ observations_bound' = FALSE
          /\ UNCHANGED <<observations, nobservations>>
     ELSE /\ states' = <<>> /\ nstates' = <<>> /\ actions' = <<>>
          /\ rewards' = <<>> /\ observations' = <<>> /\ nobservations' = <<>>
          /\ observations_bound' = TRUE
  /\ pc' = "episode"
  /\ UNCHANGED <<agg, losses>>
  /\ UNCHANGED <<args, env, f, exp_buffer, agents, err, t, i, j, n, node,
                 batch, r_coop, critic_weights, TR_weights, calls, received,
                 fired, actor_calls, actor_slice, cycle_first>>

\* lines 51-71: next iteration of the episode loop
BeginEpisode ==
  /\ pc = "episode"
  /\ t < args.n_episodes
  /\ j' = 0
  /\ i' = t % args.n_ep_fixed
  /\ env' = [env EXCEPT !.resets = @ + 1]
  /\ cycle_first' = IF t % args.n_ep_fixed = 0 THEN env.steps + 1
                    ELSE cycle_first
  /\ IF \E x \in Nodes : Label(x) = "IndexError"
     THEN pc' = "crashed" /\ err' = "IndexError"
     ELSE pc' = "simulate" /\ err' = err
  /\ losses' = [TR |-> ZeroLosses(env.n_agents),
                critic |-> ZeroLosses(env.n_agents),
                actor |-> ZeroLosses(env.n_agents)]
  /\ UNCHANGED agg
  /\ UNCHANGED <<args, f, exp_buffer, agents, states, nstates, actions,
                 rewards, observations, nobservations, observations_bound,
                 t, n, node, batch, r_coop, critic_weights, TR_weights, calls,
                 received, fired, actor_calls, actor_slice>>

\* line 100
CycleBoundaryEveryEpisode(ii, jj) == jj = args.max_ep_len

CycleBoundary(ii, jj) == ii = args.n_ep_fixed - 1 /\ jj = args.max_ep_len

\* lines 75-100: one simulation step and the appends to the buffer
Step ==
  /\ pc = "simulate"
  /\ j < args.max_ep_len
  /\ LET k == env.steps + 1 IN
       /\ env' = [env EXCEPT !.steps = k]
       /\ j' = j + 1
       /\ states' = Append(states, k)
       /\ nstates' = Append(nstates, k)
       /\ actions' = Append(actions, k)
       /\ rewards' = Append(rewards, [step |-> k, vec |-> RewardOf(k)])
       /\ IF observations_bound
          THEN /\ observations' = Append(observations, k)
               /\ nobservations' = Append(nobservations, k)
               /\ pc' = IF CycleBoundary(i, j + 1) THEN "update" ELSE "simulate"
               /\ err' = err
          ELSE /\ UNCHANGED <<observations, nobservations>>
               /\ pc' = "crashed"
               /\ err' = "NameError"
  /\ UNCHANGED <<agg, losses>>
  /\ UNCHANGED <<args, f, exp_buffer, agents, observations_bound, t, i, n,
                 node, batch, r_coop, critic_weights, TR_weights, calls,
                 received, fired, actor_calls, actor_slice, cycle_first>>

\* r[:,node]: the reward stream of one node over the whole batch
OwnReward(x) == [p \in 1..Len(batch.r) |-> batch.r[p].vec[x + 1]]

\* lines 111-113 for one buffered step: r_coop += r[:,node] / n_coop over the
\* nodes labelled Cooperative, in node order
RECURSIVE TeamSum(_, _)
TeamSum(vec, x) ==
  IF x < 0 THEN Zero
  ELSE IF Label(x) = "Cooperative"
       THEN RatAdd(TeamSum(vec, x - 1), RatDivInt(vec[x + 1], n_coop))
       ELSE TeamSum(vec, x - 1)

TeamAverage(vec) == TeamSum(vec, env.n_agents - 1)

\* line 116: the snapshot list an epoch starts with, old being the list the
\* previous epoch left
EpochWeightsKept(old) == old

EpochWeights(old) == <<>>

\* lines 101-116: materialise the buffer, team-average reward, first epoch
StartUpdate ==
  /\ pc = "update"
  /\ batch' = [s |-> states, ns |-> nstates, r |-> rewards, a |-> actions,
               obs |-> observations, nobs |-> nobservations,
               sa |-> observations]
  /\ r_coop' = [p \in 1..Len(rewards) |-> TeamAverage(rewards[p].vec)]
  /\ fired' = Append(fired, <<t, j>>)
  /\ n' = 0
  /\ critic_weights' = EpochWeights(critic_weights)
  /\ TR_weights' = EpochWeights(TR_weights)
  /\ calls' = <<>>
  /\ received' = [x \in Nodes |-> [critic |-> <<>>, TR |-> <<>>]]
  /\ node' = 0
  /\ pc' = "stage1"
  /\ UNCHANGED <<agg, losses>>
  /\ UNCHANGED <<args, env, f, exp_buffer, agents, states, nstates, actions,
                 rewards, observations, nobservations, observations_bound,
                 err, t, i, j, actor_calls, actor_slice, cycle_first>>

\* line 121
r_applied_own(x) == OwnReward(x)

r_applied(x) == IF args.common_reward THEN r_coop ELSE OwnReward(x)

\* lines 130-131: -r_coop
NegTeamUnsigned == r_coop

NegTeam == [p \in 1..Len(r_coop) |-> RatNeg(r_coop[p])]

\* lines 122-134: the operations invoked on agents[x], in order
StageICalls(x) ==
  CASE Label(x) = "Cooperative" ->
         << Call(x, "TR_update_local", r_applied(x)),
            Call(x, "critic_update_local", r_applied(x)) >>
    [] Label(x) = "Greedy" ->
         << Call(x, "TR_update_local", OwnReward(x)),
            Call(x, "critic_update_local", OwnReward(x)) >>
    [] Label(x) = "Malicious" ->
         << Call(x, "critic_update_local", OwnReward(x)),
            Call(x, "TR_update_compromised", NegTeam),
            Call(x, "critic_update_compromised", NegTeam) >>
    [] OTHER ->
         << Call(x, "get_TR_weights", <<>>),
            Call(x, "get_critic_weights", <<>>) >>

\* lines 122-134: agents[x] after its Stage I operations
StageIAgent(x) ==
  CASE Label(x) \in {"Cooperative", "Greedy"} ->
         [agents[x] EXCEPT !.TR = Trained("local", x),
                           !.critic = Trained("local", x)]
    [] Label(x) = "Malicious" ->
         [agents[x] EXCEPT !.critic_local = Stamp("local", x),
                           !.TR = Trained("compromised", x),
                           !.critic = Trained("compromised", x)]
    [] OTHER -> agents[x]

\* lines 123-131: TR_loss[x] and critic_loss[x] after Stage I of node x
StageILossesEveryRole(x) ==
  [losses EXCEPT !.TR[x] = Stamp("local", x), !.critic[x] = Stamp("local", x)]

StageILosses(x) ==
  CASE Label(x) \in {"Cooperative", "Greedy"} ->
         [losses EXCEPT !.TR[x] = Stamp("local", x),
                        !.critic[x] = Stamp("local", x)]
    [] Label(x) = "Malicious" ->
         [losses EXCEPT !.TR[x] = Stamp("compromised", x),
                        !.critic[x] = Stamp("compromised", x)]
    [] OTHER -> losses

\* lines 120-136: Stage I of one node
StageI ==
  /\ pc = "stage1"
  /\ node < env.n_agents
  /\ agents' = [agents EXCEPT ![node] = StageIAgent(node)]
  /\ calls' = calls \o StageICalls(node)
  /\ TR_weights' = Append(TR_weights, Snapshot(node, StageIAgent(node).TR))
  /\ critic_weights' =
       Append(critic_weights, Snapshot(node, StageIAgent(node).critic))
  /\ IF node + 1 < env.n_agents
     THEN node' = node + 1 /\ pc' = "stage1"
     ELSE node' = NextCoop(0) /\ pc' = "stage2"
  /\ losses' = StageILosses(node)
  /\ UNCHANGED agg
  /\ UNCHANGED <<args, env, f, exp_buffer, states, nstates, actions, rewards,
                 observations, nobservations, observations_bound, err, t, i,
                 j, n, batch, r_coop, received, fired, actor_calls,
                 actor_slice, cycle_first>>

\* lines 144-145
critic_weights_innodes_live(v) ==
  [k \in 1..Len(args.in_nodes[v]) |->
     Snapshot(args.in_nodes[v][k], agents[args.in_nodes[v][k]].critic)]

critic_weights_innodes(v) ==
  [k \in 1..Len(args.in_nodes[v]) |-> critic_weights[args.in_nodes[v][k] + 1]]

TR_weights_all(v) == TR_weights

TR_weights_innodes_live(v) ==
  [k \in 1..Len(args.in_nodes[v]) |->
     Snapshot(args.in_nodes[v][k], agents[args.in_nodes[v][k]].TR)]

TR_weights_innodes(v) ==
  [k \in 1..Len(args.in_nodes[v]) |-> TR_weights[args.in_nodes[v][k] + 1]]

\* lines 149-160: agents[v] after hidden consensus and the team update
StageIIAgent(v) ==
  [agents[v] EXCEPT
     !.critic = [hidden |-> HiddenAggregate(v, critic_weights_innodes(v)),
                 out |-> Stamp("team", v)],
     !.TR = [hidden |-> HiddenAggregate(v, TR_weights_innodes(v)),
             out |-> Stamp("team", v)]]

\* the aggregate of node v's output-level consensus: evaluated on v's own
\* hidden layer hid and on the output layers of the snapshots snaps
Estimate(v, net, hid, snaps) ==
  [by |-> v, net |-> net, cyc |-> Len(fired), ep |-> n, hidden |-> hid,
   outs |-> [k \in DOMAIN snaps |-> snaps[k].w.out]]

\* lines 154-155: evaluated after lines 149-150 have overwritten v's hidden
\* layers
critic_agg_before_hidden(v) ==
  Estimate(v, "critic", agents[v].critic.hidden, critic_weights_innodes(v))

critic_agg(v) ==
  Estimate(v, "critic", HiddenAggregate(v, critic_weights_innodes(v)),
           critic_weights_innodes(v))

TR_agg(v) ==
  Estimate(v, "TR", HiddenAggregate(v, TR_weights_innodes(v)),
           TR_weights_innodes(v))

\* lines 149-160: the operations invoked on agents[v], in order, each with
\* the argument it is given besides the batch
StageIICalls(v) ==
  << Call(v, "resilient_consensus_critic_hidden", critic_weights_innodes(v)),
     Call(v, "resilient_consensus_TR_hidden", TR_weights_innodes(v)),
     Call(v, "resilient_consensus_critic", critic_weights_innodes(v)),
     Call(v, "resilient_consensus_TR", TR_weights_innodes(v)),
     Call(v, "critic_update_team", critic_agg(v)),
     Call(v, "TR_update_team", TR_agg(v)) >>

\* lines 140-160: Stage II of one Cooperative node
StageII ==
  /\ pc = "stage2"
  /\ node < env.n_agents
  /\ IF node \in DOMAIN args.in_nodes
     THEN /\ agents' = [agents EXCEPT ![node] = StageIIAgent(node)]
          /\ received' = [received EXCEPT
                            ![node] = [critic |-> critic_weights_innodes(node),
                                       TR |-> TR_weights_innodes(node)]]
          /\ calls' = calls \o StageIICalls(node)
          /\ node' = NextCoop(node + 1)
          /\ pc' = "stage2" /\ err' = err
     ELSE /\ pc' = "crashed" /\ err' = "KeyError"
          /\ UNCHANGED <<agents, received, calls, node>>
  /\ UNCHANGED <<agg, losses>>
  /\ UNCHANGED <<args, env, f, exp_buffer, states, nstates, actions, rewards,
                 observations, nobservations, observations_bound, t, i, j, n,
                 batch, r_coop, critic_weights, TR_weights, fired,
                 actor_calls, actor_slice, cycle_first>>

\* line 115: range(n_epochs) is exhausted after epoch e
LastEpochFirst(e) == TRUE

LastEpoch(e) == e + 1 >= args.n_epochs

\* lines 161-164: what follows the epoch loop
AfterEpochsTrim == "trim"

AfterEpochs == "actor"

\* lines 115-116: the epoch loop after Stage II of the last Cooperative node
NextEpoch ==
  /\ pc = "stage2"
  /\ node >= env.n_agents
  /\ IF LastEpoch(n)
     THEN /\ pc' = AfterEpochs
          /\ UNCHANGED <<n, critic_weights, TR_weights, calls, received>>
     ELSE /\ n' = n + 1
          /\ critic_weights' = EpochWeights(critic_weights)
          /\ TR_weights' = EpochWeights(TR_weights)
          /\ calls' = <<>>
          /\ received' = [x \in Nodes |-> [critic |-> <<>>, TR |-> <<>>]]
          /\ pc' = "stage1"
  /\ node' = 0
  /\ UNCHANGED <<agg, losses>>
  /\ UNCHANGED <<args, env, f, exp_buffer, agents, states, nstates, actions,
                 rewards, observations, nobservations, observations_bound,
                 err, t, i, j, batch, r_coop, fired, actor_calls, actor_slice,
                 cycle_first>>

\* lines 166, 168: T[-max_ep_len*n_ep_fixed:]
ActorSliceWhole(T) == T

ActorSlice(T) == SliceLast(T, args.max_ep_len * args.n_ep_fixed)

\* lines 164-168: the actor update of one node
ActorUpdate ==
  /\ pc = "actor"
  /\ node < env.n_agents
  /\ agents' = [agents EXCEPT ![node].actor = Stamp("actor", node)]
  /\ actor_calls' = [actor_calls EXCEPT ![node] = @ + 1]
  /\ actor_slice' = [obs |-> ActorSlice(batch.obs),
                     nobs |-> ActorSlice(batch.nobs),
                     a |-> ActorSlice(batch.a)]
  /\ calls' = Append(calls, Call(node, "actor_update", <<>>))
  /\ IF node + 1 < env.n_agents
     THEN node' = node + 1 /\ pc' = "actor"
     ELSE node' = 0 /\ pc' = "trim"
  /\ losses' = [losses EXCEPT !.actor[node] = Stamp("actor", node)]
  /\ UNCHANGED agg
  /\ UNCHANGED <<args, env, f, exp_buffer, states, nstates, actions, rewards,
                 observations, nobservations, observations_bound, err, t, i,
                 j, n, batch, r_coop, critic_weights, TR_weights, received,
                 fired, cycle_first>>

\* lines 173-180 for one list: del L[:q] when len(states) > buffer_size
TrimmedNewest(L) ==
  IF Len(states) > args.buffer_size THEN SubSeq(L, 1, args.buffer_size) ELSE L

TrimmedOneShort(L) ==
  IF Len(states) > args.buffer_size
  THEN DelFirst(L, Len(states) - args.buffer_size - 1)
  ELSE L

Trimmed(L) ==
  IF Len(states) > args.buffer_size
  THEN DelFirst(L, Len(states) - args.buffer_size)
  ELSE L

\* lines 173-180: the trim that ends an update cycle
Trim ==
  /\ pc = "trim"
  /\ states' = Trimmed(states)
  /\ nstates' = Trimmed(nstates)
  /\ actions' = Trimmed(actions)
  /\ rewards' = Trimmed(rewards)
  /\ observations' = Trimmed(observations)
  /\ nobservations' = Trimmed(nobservations)
  /\ pc' = "simulate"
  /\ UNCHANGED <<agg, losses>>
  /\ UNCHANGED <<args, env, f, exp_buffer, agents, observations_bound, err,
                 t, i, j, n, node, batch, r_coop, critic_weights, TR_weights,
                 calls, received, fired, actor_calls, actor_slice,
                 cycle_first>>

\* lines 75, 185-205: the while loop ends, the episode is summarised
EndEpisode ==
  /\ pc = "simulate"
  /\ j >= args.max_ep_len
  /\ t' = t + 1
  /\ pc' = "episode"
  /\ UNCHANGED <<agg, losses>>
  /\ UNCHANGED <<args, env, f, exp_buffer, agents, states, nstates, actions,
                 rewards, observations, nobservations, observations_bound,
                 err, i, j, n, node, batch, r_coop, critic_weights,
                 TR_weights, calls, received, fired, actor_calls, actor_slice,
                 cycle_first>>

\* lines 51, 208-212: the episode loop ends; run_dir is bound only by the
\* first episode (line 193)
Finish ==
  /\ pc = "episode"
  /\ t >= args.n_episodes
  /\ IF t = 0
     THEN pc' = "crashed" /\ err' = "NameError"
     ELSE pc' = "done" /\ err' = err
  /\ UNCHANGED <<agg, losses>>
  /\ UNCHANGED <<args, env, f, exp_buffer, agents, states, nstates, actions,
                 rewards, observations, nobservations, observations_bound,
                 t, i, j, n, node, batch, r_coop, critic_weights, TR_weights,
                 calls, received, fired, actor_calls, actor_slice,
                 cycle_first>>

Next ==
  \/ BindBuffers
  \/ BeginEpisode
  \/ Step
  \/ StartUpdate
  \/ StageI
  \/ StageII
  \/ NextEpoch
  \/ ActorUpdate
  \/ Trim
  \/ EndEpisode
  \/ Finish

Spec == Init /\ [][Next]_vars

\* ------------------------------------------------- trimmed-mean aggregation
RECURSIVE SumSeq(_)
SumSeq(s) == IF s = <<>> THEN 0 ELSE Head(s) + SumSeq(Tail(s))

Mean(s) == Rat(SumSeq(s), Len(s))

\* the values left after discarding the tol lowest and the tol highest
Survivors(vals, tol) ==
  SubSeq(SortSeq(vals, LAMBDA a, b : a < b), tol + 1, Len(vals) - tol)

TrimmedMeanUntrimmed(vals, tol) == [defined |-> TRUE, value |-> Mean(vals)]

\* one coordinate of the resilient aggregate over the neighbours' values;
\* with len(vals) <= 2 * tol no value survives and no aggregate is defined
TrimmedMean(vals, tol) ==
  IF Len(vals) <= 2 * tol THEN NoResult
  ELSE [defined |-> TRUE, value |-> Mean(Survivors(vals, tol))]

\* k neighbour values of one coordinate, the tolerance f, and which of the
\* values come from adversarial neighbours (at most f of them)
AggInputs ==
  { [vals |-> v, adv |-> A, f |-> tol, done |-> FALSE, out |-> NoResult] :
      v \in UNION { [1..k -> 0..MaxVal] : k \in 1..MaxK },
      A \in SUBSET (1..MaxK), tol \in 0..MaxTol }

InitAgg ==
  /\ InitWith(Config(DefaultNetwork, 1, 0, 1, 1, 0, TRUE, NoBuffer))
  /\ agg \in { a \in AggInputs :
                 a.adv \subseteq DOMAIN a.vals /\ Cardinality(a.adv) <= a.f }

Aggregate ==
  /\ ~agg.done
  /\ agg' = [agg EXCEPT !.done = TRUE, !.out = TrimmedMean(agg.vals, agg.f)]
  /\ UNCHANGED train

NextAgg == Aggregate

SpecAgg == InitAgg /\ [][NextAgg]_vars

\* ================================================================ properties
InCycle == pc \in {"update", "stage1", "stage2", "actor", "trim"}

Min(a, b) == IF a <= b THEN a ELSE b

\* C1: the batched update cycle fires exactly when t mod n_ep_fixed is
\* n_ep_fixed - 1 and j equals max_ep_len, and at no other step: the k-th
\* cycle fires at the last step of episode k * n_ep_fixed - 1, and a run that
\* returns has performed floor(n_episodes / n_ep_fixed) cycles.
C1_CycleBoundaryExact ==
  /\ InCycle => (t % args.n_ep_fixed = args.n_ep_fixed - 1
                 /\ i = args.n_ep_fixed - 1 /\ j = args.max_ep_len)
  /\ \A k \in 1..Len(fired) :
       fired[k] = <<k * args.n_ep_fixed - 1, args.max_ep_len>>
  /\ pc = "update" => Len(fired) = t \div args.n_ep_fixed
  /\ pc \in {"stage1", "stage2", "actor", "trim"} =>
       Len(fired) = (t + 1) \div args.n_ep_fixed
  /\ pc = "simulate" =>
       Len(fired) = (IF j = args.max_ep_len THEN t + 1 ELSE t)
                      \div args.n_ep_fixed
  /\ pc = "episode" => Len(fired) = t \div args.n_ep_fixed
  /\ pc = "done" => (t = args.n_episodes
                     /\ Len(fired) = args.n_episodes \div args.n_ep_fixed)

C1_Witness ==
  /\ pc = "done"
  /\ args.n_ep_fixed > 1
  /\ args.n_episodes % args.n_ep_fixed # 0
  /\ Len(fired) >= 1

\* the last m entries of old, in their order
KeptNewest(old, new, m) ==
  /\ Len(new) = m
  /\ \A p \in 1..m : new[p] = old[Len(old) - m + p]

\* C2: immediately after the trim that ends an update cycle, each buffer
\* list holds at most buffer_size entries, and they are exactly the most
\* recently appended min(length, buffer_size) transitions in their original
\* order.
C2_TrimKeepsNewest ==
  [][pc = "trim" =>
       LET m == Min(Len(states), args.buffer_size) IN
         /\ m <= args.buffer_size
         /\ KeptNewest(states, states', m)
         /\ KeptNewest(nstates, nstates', m)
         /\ KeptNewest(actions, actions', m)
         /\ KeptNewest(rewards, rewards', m)
         /\ KeptNewest(observations, observations', m)
         /\ KeptNewest(nobservations, nobservations', m)
         /\ \A p \in 1..m : states'[p] = env.steps - m + p]_vars

C2_Witness ==
  /\ pc = "simulate"
  /\ i = args.n_ep_fixed - 1 /\ j = args.max_ep_len
  /\ args.buffer_size >= 2
  /\ Len(states) = args.buffer_size
  /\ states[1] > 1

LocalOps == {"TR_update_local", "critic_update_local"}

SumOver(vec, S) ==
  LET RECURSIVE Sm(_)
      Sm(x) == IF x < 0 THEN 0
               ELSE Sm(x - 1) + (IF x \in S THEN vec[x + 1].num ELSE 0)
  IN Sm(env.n_agents - 1)

\* C4: at every update cycle the team-average reward of each buffered step
\* is the sum of the rewards of the nodes labelled Cooperative divided by the
\* number of Cooperative nodes; no other node contributes.
C4_TeamAverageIsCoopMean ==
  (pc \in {"stage1", "stage2", "actor", "trim"} /\ CoopNodes # {}) =>
    /\ Len(r_coop) = Len(batch.r)
    /\ \A p \in DOMAIN r_coop :
         r_coop[p] = Rat(SumOver(batch.r[p].vec, CoopNodes),
                         Cardinality(CoopNodes))

\* what Stage I of the current epoch leaves in node u's critic or TR network
StageIOutput(u) ==
  IF Label(u) = "Faulty" THEN InitParam(u)
  ELSE LET op == IF Label(u) = "Malicious" THEN "compromised" ELSE "local"
       IN [hidden |-> Tag(op, u, Len(fired), n),
           out |-> Tag(op, u, Len(fired), n)]

StageIICallsMade ==
  {k \in DOMAIN calls : calls[k].op \in
     {"resilient_consensus_critic_hidden", "resilient_consensus_TR_hidden",
      "resilient_consensus_critic", "resilient_consensus_TR",
      "critic_update_team", "TR_update_team"}}

FromStageI(s) ==
  /\ s.cyc = Len(fired) /\ s.ep = n
  /\ s.w = StageIOutput(s.by)
  /\ s.w.out.op # "team"

\* C5: in every epoch, Stage I of every node has completed before any
\* Cooperative node starts Stage II, and every snapshot consumed in Stage II
\* is a completed Stage I output of the same epoch, never a node's
\* post-consensus parameters.
C5_StageBarrier ==
  /\ pc = "stage1" =>
       /\ StageIICallsMade = {}
       /\ \A v \in Nodes : received[v].critic = <<>> /\ received[v].TR = <<>>
  /\ pc = "stage2" =>
       /\ Len(critic_weights) = env.n_agents
       /\ Len(TR_weights) = env.n_agents
  /\ \A u \in Nodes : \A k \in StageIICallsMade :
       \E m \in 1..(k - 1) : calls[m].node = u /\ m \notin StageIICallsMade
  /\ \A v \in Nodes :
       /\ \A k \in DOMAIN received[v].critic : FromStageI(received[v].critic[k])
       /\ \A k \in DOMAIN received[v].TR : FromStageI(received[v].TR[k])

C5_Witness ==
  /\ pc = "stage2"
  /\ n >= 1
  /\ \E v \in CoopNodes : \E k \in DOMAIN received[v].critic :
       /\ received[v].critic[k].by \in CoopNodes
       /\ received[v].critic[k].by < v
       /\ agents[received[v].critic[k].by].critic.out.op = "team"

TeamTag(v, e) == Tag("team", v, Len(fired), e)

\* C6: a cycle runs n_epochs epochs one after another: when Stage I of epoch
\* n >= 1 reaches a Cooperative node, that node's critic and TR parameters are
\* the team-updated ones of epoch n - 1, and the epoch loop is left only
\* after epoch n_epochs - 1.
C6_EpochsSequential ==
  /\ pc \in {"stage1", "stage2"} => n < args.n_epochs
  /\ (pc = "stage1" /\ n >= 1) =>
       \A v \in CoopNodes : v >= node =>
         /\ agents[v].critic.out = TeamTag(v, n - 1)
         /\ agents[v].TR.out = TeamTag(v, n - 1)
  /\ (pc = "stage1" /\ n = 0) =>
       \A v \in Nodes : v >= node =>
         /\ agents[v].critic.out.cyc < Len(fired)
         /\ agents[v].TR.out.cyc < Len(fired)
  /\ pc \in {"actor", "trim"} => n = args.n_epochs - 1

C6_Witness ==
  /\ pc = "stage1"
  /\ n >= 1
  /\ node > 0
  /\ Cardinality(CoopNodes) >= 2
  /\ \E v \in CoopNodes : v >= node

\* C7: in every update cycle actor_update is invoked exactly once on every
\* node, and only after all n_epochs epochs of the cycle have finished; it is
\* never invoked inside the epoch loop or outside an update cycle.
C7_ActorPassAfterEpochs ==
  /\ pc \in {"start", "episode", "simulate", "update", "trim", "done"} =>
       \A v \in Nodes : actor_calls[v] = Len(fired)
  /\ pc \in {"stage1", "stage2"} =>
       \A v \in Nodes : actor_calls[v] = Len(fired) - 1
  /\ pc = "actor" =>
       /\ n = args.n_epochs - 1
       /\ Len(critic_weights) = env.n_agents
       /\ \A v \in CoopNodes : agents[v].critic.out = TeamTag(v, n)
       /\ \A v \in Nodes :
            actor_calls[v] = (IF v < node THEN Len(fired) ELSE Len(fired) - 1)
  /\ \A k \in DOMAIN calls :
       calls[k].op = "actor_update" => pc \in {"actor", "trim", "simulate",
                                               "episode", "done", "update"}

C7_Witness ==
  /\ pc = "trim"
  /\ Len(fired) >= 2
  /\ args.n_epochs >= 2
  /\ \A v \in Nodes : actor_calls[v] = 2
  /\ \E v \in Nodes : Label(v) # "Cooperative"

\* the step ids a .. b in order
Ids(a, b) == [p \in 1..(b - a + 1) |-> a + p - 1]

\* C8: the slice handed to actor_update holds exactly the transitions
\* appended during the n_ep_fixed episodes of the current cycle, in order,
\* and nothing retained from an earlier cycle, whatever buffer_size.
C8_ActorSliceIsCurrentCycle ==
  (pc = "trim" \/ (pc = "actor" /\ node > 0)) =>
    /\ env.steps - cycle_first + 1 = args.max_ep_len * args.n_ep_fixed
    /\ actor_slice.obs = Ids(cycle_first, env.steps)
    /\ actor_slice.nobs = Ids(cycle_first, env.steps)
    /\ actor_slice.a = Ids(cycle_first, env.steps)

C8_Witness ==
  /\ pc = "trim"
  /\ Len(fired) >= 2
  /\ Len(batch.obs) > args.max_ep_len * args.n_ep_fixed
  /\ batch.obs[1] < cycle_first

ConfigError ==
  \/ Len(args.agent_label) # env.n_agents
  \/ (args.common_reward /\ n_coop = 0)
  \/ \E v \in CoopNodes :
       v \notin DOMAIN args.in_nodes \/ Len(args.in_nodes[v]) <= 2 * f

\* C9: a configuration error makes train_RPBCAC fail before training starts:
\* before the first env.reset, before any transition is appended and before
\* any agent update is invoked.
C9_ConfigErrorFailsFast ==
  ConfigError =>
    /\ env.resets = 0 /\ env.steps = 0
    /\ Len(states) = 0
    /\ calls = <<>> /\ fired = <<>>
    /\ pc # "done"

Bys(snaps) == [k \in DOMAIN snaps |-> snaps[k].by]

\* C10: the snapshots a Cooperative node v uses in Stage II are exactly those
\* of the nodes listed in in_nodes[v], in that order, for critic and TR, and
\* in_nodes and agent_label are never modified.
C10_OnlyInNodes ==
  /\ [](\A v \in Nodes :
          /\ received[v].critic # <<>> =>
               /\ v \in CoopNodes
               /\ Bys(received[v].critic) = args.in_nodes[v]
               /\ \A k \in DOMAIN received[v].critic :
                    received[v].critic[k] = critic_weights[args.in_nodes[v][k] + 1]
          /\ received[v].TR # <<>> =>
               /\ v \in CoopNodes
               /\ Bys(received[v].TR) = args.in_nodes[v]
               /\ \A k \in DOMAIN received[v].TR :
                    received[v].TR[k] = TR_weights[args.in_nodes[v][k] + 1])
  /\ [][/\ args.in_nodes' = args.in_nodes
        /\ args.agent_label' = args.agent_label]_vars

C10_Witness ==
  /\ pc = "stage2"
  /\ \E v \in CoopNodes :
       /\ Len(received[v].TR) = 1
       /\ received[v].TR[1].by # v
       /\ Len(received[v].critic) = 1

StageIIOps ==
  {"resilient_consensus_critic_hidden", "resilient_consensus_TR_hidden",
   "resilient_consensus_critic", "resilient_consensus_TR",
   "critic_update_team", "TR_update_team"}

\* how often operation op has been invoked on node v in the current epoch
OpCount(v, op) ==
  Cardinality({k \in DOMAIN calls : calls[k].node = v /\ calls[k].op = op})

\* Stage II of the current epoch has run for node v
StageIIDone(v) == (pc = "stage2" /\ v < node) \/ pc \in {"actor", "trim"}

\* C11: the Stage II operations (hidden consensus, output consensus, team
\* update, for critic and TR) are invoked only on nodes labelled Cooperative,
\* each exactly once per Cooperative node and epoch; a Greedy, Malicious or
\* Faulty node never receives neighbour snapshots, never aggregates and never
\* has a team update applied.
C11_StageIIOnlyCooperative ==
  /\ \A k \in StageIICallsMade : Label(calls[k].node) = "Cooperative"
  /\ \A v \in Nodes :
       Label(v) # "Cooperative" =>
         /\ received[v].critic = <<>> /\ received[v].TR = <<>>
         /\ agents[v].critic.out.op # "team" /\ agents[v].TR.out.op # "team"
         /\ agents[v].critic.hidden.op # "consensus"
         /\ agents[v].TR.hidden.op # "consensus"
  /\ \A v \in Nodes : \A op \in StageIIOps :
       /\ OpCount(v, op) <= 1
       /\ (Label(v) = "Cooperative" /\ StageIIDone(v)) => OpCount(v, op) = 1
       /\ (pc = "stage2" /\ v >= node) => OpCount(v, op) = 0

C11_Witness ==
  /\ pc = "actor"
  /\ n = 1
  /\ \E v, u, w \in Nodes :
       /\ Label(v) = "Cooperative" /\ Label(u) = "Malicious"
       /\ Label(w) = "Faulty"
       /\ \A op \in StageIIOps : OpCount(v, op) = 1 /\ OpCount(u, op) = 0
       /\ received[v].critic # <<>>

\* C12: on a node labelled Faulty no critic or TR update operation is ever
\* invoked, in Stage I or Stage II; its critic and TR parameters, and hence
\* the snapshots it contributes, are the same in every epoch; and its
\* entries of critic_loss and TR_loss are never written.
C12_FaultyIsReadOnly ==
  \A v \in Nodes :
    Label(v) = "Faulty" =>
      /\ \A k \in DOMAIN calls :
           calls[k].node = v =>
             calls[k].op \in {"get_TR_weights", "get_critic_weights",
                              "actor_update"}
      /\ agents[v].critic = InitParam(v) /\ agents[v].TR = InitParam(v)
      /\ \A k \in DOMAIN critic_weights :
           critic_weights[k].by = v => critic_weights[k].w = InitParam(v)
      /\ \A k \in DOMAIN TR_weights :
           TR_weights[k].by = v => TR_weights[k].w = InitParam(v)
      /\ losses.TR[v] = ZeroLosses(env.n_agents)[v]
      /\ losses.critic[v] = ZeroLosses(env.n_agents)[v]

C12_Witness ==
  /\ pc = "stage2"
  /\ n = 1
  /\ \E v, u \in Nodes :
       /\ Label(v) = "Faulty" /\ Label(u) = "Cooperative"
       /\ OpCount(v, "get_critic_weights") = 1
       /\ OpCount(v, "get_TR_weights") = 1
       /\ critic_weights[v + 1].w = InitParam(v)
       /\ critic_weights[v + 1].ep = 1
       /\ losses.critic[u] # ZeroLosses(env.n_agents)[u]
       /\ losses.critic[v] = ZeroLosses(env.n_agents)[v]

IsScenario ==
  /\ env.n_agents = Len(ScenarioLabels)
  /\ args.agent_label = ScenarioLabels
  /\ args.in_nodes = PairGraph
  /\ f = 0

\* C13: with agents [Cooperative, Cooperative, Malicious, Faulty],
\* in_nodes = {0: [1], 1: [0]} and f = 0, after Stage II of an epoch node 0's
\* hidden layers equal node 1's Stage I output hidden layers exactly, and
\* node 1's equal node 0's Stage I output hidden layers: node 1, processed
\* second, is handed node 0's Stage I snapshot, not node 0's parameters as
\* overwritten by its own Stage II.
C13_ScenarioHiddenExchange ==
  IsScenario =>
    /\ StageIIDone(0) =>
         /\ received[0].critic = <<Snapshot(1, StageIOutput(1))>>
         /\ received[0].TR = <<Snapshot(1, StageIOutput(1))>>
         /\ agents[0].critic.hidden = StageIOutput(1).hidden
         /\ agents[0].TR.hidden = StageIOutput(1).hidden
    /\ StageIIDone(1) =>
         /\ received[1].critic = <<Snapshot(0, StageIOutput(0))>>
         /\ received[1].TR = <<Snapshot(0, StageIOutput(0))>>
         /\ agents[1].critic.hidden = StageIOutput(0).hidden
         /\ agents[1].TR.hidden = StageIOutput(0).hidden

C13_Witness ==
  /\ IsScenario
  /\ pc = "stage2" /\ node >= env.n_agents
  /\ agents[0].critic.hidden = Tag("local", 1, 1, n)
  /\ agents[1].critic.hidden = Tag("local", 0, 1, n)
  /\ agents[1].TR.hidden # agents[0].TR.hidden
  /\ received[1].TR[1].w # agents[0].TR

BufferLists ==
  <<states, nstates, actions, rewards, observations, nobservations>>

\* new is old, or old with one entry appended
AppendedTo(old, new) ==
  \/ new = old
  \/ Len(new) = Len(old) + 1 /\ SubSeq(new, 1, Len(old)) = old

\* C14: the six buffer lists change only by the per-step appends of the
\* simulation phase and by the trim that ends an update cycle; from the
\* materialisation of the batch until the last actor update has returned
\* they hold exactly what was materialised, and the trim is reached only
\* after the actor pass over every node.
C14_BufferFrozenDuringUpdate ==
  /\ [](pc \in {"stage1", "stage2", "actor", "trim"} =>
          /\ batch.s = states /\ batch.ns = nstates /\ batch.a = actions
          /\ batch.r = rewards /\ batch.obs = observations
          /\ batch.nobs = nobservations)
  /\ [](pc = "trim" => \A v \in Nodes : actor_calls[v] = Len(fired))
  /\ [][ BufferLists' # BufferLists =>
           \/ pc = "start"
           \/ /\ pc = "simulate" /\ j < args.max_ep_len /\ j' = j + 1
              /\ \A k \in 1..6 : AppendedTo(BufferLists[k], BufferLists'[k])
           \/ /\ pc = "trim" /\ pc' = "simulate"
              /\ \A v \in Nodes : actor_calls[v] = Len(fired) ]_vars

C14_Witness ==
  /\ pc = "trim"
  /\ Len(fired) = 2
  /\ Len(states) > args.buffer_size
  /\ args.n_epochs > 1
  /\ batch.s = states /\ batch.obs = observations
  /\ \A v \in Nodes : actor_calls[v] = 2

Honest == DOMAIN agg.vals \ agg.adv

\* p <= q for rationals with positive denominators
RatLeq(p, q) == p.num * q.den <= q.num * p.den

SeqOf(S) == [k \in 1..Cardinality(S) |->
               agg.vals[CHOOSE x \in S :
                          Cardinality({y \in S : y < x}) = k - 1]]

WithinHonestRange(value) ==
  /\ \E h \in Honest : RatLeq(Rat(agg.vals[h], 1), value)
  /\ \E h \in Honest : RatLeq(value, Rat(agg.vals[h], 1))

StageIDone(x) ==
  (pc = "stage1" /\ x < node) \/ pc \in {"stage2", "actor", "trim"}

Negated(q) == [num |-> 0 - q.num, den |-> q.den]

\* C16: for a node labelled Malicious, in every epoch and whatever
\* common_reward, Stage I first performs a local critic update on the
\* node's own reward, whose result is not contributed, and the critic and TR
\* snapshots the node contributes are exactly the results of
\* critic_update_compromised and TR_update_compromised, both called with the
\* negated team-average reward as target.
C16_MaliciousContribution ==
  \A x \in Nodes :
    (Label(x) = "Malicious" /\ StageIDone(x)) =>
      /\ \E a, b, c \in DOMAIN calls :
           /\ a < b /\ b < c
           /\ calls[a].node = x /\ calls[a].op = "critic_update_local"
           /\ calls[a].target = [p \in 1..Len(batch.r) |-> batch.r[p].vec[x + 1]]
           /\ calls[b].node = x /\ calls[b].op = "TR_update_compromised"
           /\ calls[c].node = x /\ calls[c].op = "critic_update_compromised"
           /\ \A k \in {b, c} :
                /\ Len(calls[k].target) = Len(r_coop)
                /\ \A p \in 1..Len(r_coop) :
                     calls[k].target[p] = Negated(r_coop[p])
      /\ OpCount(x, "critic_update_local") = 1
      /\ OpCount(x, "TR_update_local") = 0
      /\ OpCount(x, "TR_update_compromised") = 1
      /\ OpCount(x, "critic_update_compromised") = 1
      /\ critic_weights[x + 1] =
           Snapshot(x, [hidden |-> Tag("compromised", x, Len(fired), n),
                        out |-> Tag("compromised", x, Len(fired), n)])
      /\ TR_weights[x + 1] = critic_weights[x + 1]
      /\ agents[x].critic_local = Tag("local", x, Len(fired), n)

C16_Witness ==
  /\ pc = "stage2"
  /\ n = 1
  /\ args.common_reward
  /\ \E x \in Nodes :
       /\ Label(x) = "Malicious"
       /\ critic_weights[x + 1].w.out.op = "compromised"
       /\ \E p \in 1..Len(r_coop) :
            /\ r_coop[p] # Zero
            /\ r_coop[p] # batch.r[p].vec[x + 1]

\* the position in the epoch's call history of operation op on node v
Pos(v, op) == CHOOSE k \in DOMAIN calls : calls[k].node = v /\ calls[k].op = op

\* the team update op of node v is given the aggregate that consensus
\* operation con produced for v in this epoch, evaluated on hidden layer hid
TeamTargetIsAggregate(v, op, con, net, hid) ==
  LET tgt == calls[Pos(v, op)].target
      inp == calls[Pos(v, con)].target
  IN /\ tgt.by = v /\ tgt.net = net
     /\ tgt.cyc = Len(fired) /\ tgt.ep = n
     /\ tgt.hidden = hid
     /\ tgt.outs = [k \in DOMAIN inp |-> inp[k].w.out]

\* C17: for every Cooperative node in every epoch, Stage II runs hidden
\* consensus, then output consensus, then the team update; the output
\* consensus is evaluated on the node's hidden layers as overwritten by the
\* hidden consensus, and each team update is given the aggregate of the
\* output consensus of the same node and epoch.
C17_StageIIOrder ==
  \A v \in Nodes :
    (Label(v) = "Cooperative" /\ StageIIDone(v)) =>
      /\ Pos(v, "resilient_consensus_critic_hidden")
           < Pos(v, "resilient_consensus_critic")
      /\ Pos(v, "resilient_consensus_TR_hidden")
           < Pos(v, "resilient_consensus_critic")
      /\ Pos(v, "resilient_consensus_critic_hidden")
           < Pos(v, "resilient_consensus_TR")
      /\ Pos(v, "resilient_consensus_TR_hidden")
           < Pos(v, "resilient_consensus_TR")
      /\ Pos(v, "resilient_consensus_critic") < Pos(v, "critic_update_team")
      /\ Pos(v, "resilient_consensus_TR") < Pos(v, "critic_update_team")
      /\ Pos(v, "resilient_consensus_critic") < Pos(v, "TR_update_team")
      /\ Pos(v, "resilient_consensus_TR") < Pos(v, "TR_update_team")
      /\ calls[Pos(v, "resilient_consensus_critic_hidden")].target
           = calls[Pos(v, "resilient_consensus_critic")].target
      /\ calls[Pos(v, "resilient_consensus_TR_hidden")].target
           = calls[Pos(v, "resilient_consensus_TR")].target
      /\ TeamTargetIsAggregate(v, "critic_update_team",
                               "resilient_consensus_critic", "critic",
                               agents[v].critic.hidden)
      /\ TeamTargetIsAggregate(v, "TR_update_team", "resilient_consensus_TR",
                               "TR", agents[v].TR.hidden)

C17_Witness ==
  /\ pc = "stage2" /\ node >= env.n_agents
  /\ n = 1
  /\ \E v \in Nodes :
       /\ Label(v) = "Cooperative"
       /\ OpCount(v, "critic_update_team") = 1
       /\ calls[Pos(v, "critic_update_team")].target.hidden
            # critic_weights[v + 1].w.hidden
       /\ calls[Pos(v, "critic_update_team")].target.hidden
            = agents[v].critic.hidden
       /\ agents[v].critic.out.op = "team"

\* C18: when Stage II begins, critic_weights and TR_weights each hold exactly
\* n_agents entries and entry k is the snapshot node k produced in Stage I
\* of this same epoch, for every assignment of the four roles to the nodes:
\* never an entry left from an earlier epoch or cycle, never another node's.
\* While Stage I runs the lists hold the entries of the nodes already done.
C18_SnapshotListsIndexedByNode ==
  /\ pc = "stage1" => Len(critic_weights) = node /\ Len(TR_weights) = node
  /\ pc = "stage2" =>
       Len(critic_weights) = env.n_agents /\ Len(TR_weights) = env.n_agents
  /\ pc \in {"stage1", "stage2"} =>
       \A k \in 1..Len(critic_weights) :
         /\ critic_weights[k].by = k - 1 /\ TR_weights[k].by = k - 1
         /\ critic_weights[k].cyc = Len(fired) /\ TR_weights[k].cyc = Len(fired)
         /\ critic_weights[k].ep = n /\ TR_weights[k].ep = n
         /\ critic_weights[k].w = StageIOutput(k - 1)
         /\ TR_weights[k].w = StageIOutput(k - 1)

C18_Witness ==
  /\ pc = "stage2"
  /\ n = 1
  /\ Len(critic_weights) = env.n_agents
  /\ \E u, v, w \in Nodes :
       /\ u < v /\ v < w
       /\ Label(u) = "Faulty" /\ Label(v) = "Malicious"
       /\ Label(w) = "Cooperative"
       /\ critic_weights[w + 1] = Snapshot(w, StageIOutput(w))
       /\ critic_weights[v + 1].w.out.op = "compromised"
       /\ critic_weights[u + 1].ep = 1

\* C19: in every reachable state the six buffer lists are bound, have the
\* same length, and position p of each refers to the same simulation step,
\* both when the run starts from an empty buffer and when it starts from a
\* caller-supplied exp_buffer, whose entries are kept as the oldest entries
\* until a trim removes them.
C19_BufferListsAligned ==
  pc # "start" =>
    /\ observations_bound
    /\ \A k \in 1..6 : Len(BufferLists[k]) = Len(states)
    /\ \A p \in 1..Len(states) :
         /\ nstates[p] = states[p] /\ actions[p] = states[p]
         /\ rewards[p].step = states[p]
         /\ observations[p] = states[p] /\ nobservations[p] = states[p]
    /\ (exp_buffer.given /\ fired = <<>>) =>
         \A k \in 1..6 :
           SubSeq(BufferLists[k], 1, Len(exp_buffer.lists[k]))
             = exp_buffer.lists[k]

\* transitions appended by one update cycle
CycleLen == args.n_ep_fixed * args.max_ep_len

\* update cycles whose trim has run
TrimsDone ==
  IF pc \in {"stage1", "stage2", "actor", "trim"} THEN Len(fired) - 1
  ELSE Len(fired)

\* C20: in a run that starts from an empty buffer the buffer never holds
\* more than buffer_size + n_ep_fixed * max_ep_len transitions, and between
\* trims it grows by exactly one entry per step, max_ep_len per episode,
\* trailing episodes that reach no cycle boundary included: its length is
\* what the last trim left, min(buffer_size, steps up to that trim), plus
\* the number of steps simulated since.
C20_BufferLengthBounded ==
  ~exp_buffer.given =>
    /\ Len(states) <= args.buffer_size + CycleLen
    /\ pc \notin {"start", "crashed"} =>
         /\ Len(states) = Min(args.buffer_size, TrimsDone * CycleLen)
                            + (env.steps - TrimsDone * CycleLen)
         /\ env.steps - TrimsDone * CycleLen <= CycleLen
         /\ pc = "episode" => env.steps = t * args.max_ep_len

C20_Witness ==
  /\ ~exp_buffer.given
  /\ pc = "done"
  /\ Len(fired) >= 1
  /\ args.n_episodes % args.n_ep_fixed # 0
  /\ args.buffer_size > 0
  /\ args.buffer_size < CycleLen
  /\ Len(states) = args.buffer_size + args.max_ep_len
  /\ args.max_ep_len > 1

====
